---- MODULE Spec2Model ----
(***************************************************************************)
(* Model of the adaptive tuning core of leo-skills/core/evolution:         *)
(* SkillAdapter (adapter.py), SkillEvolver (evolver.py), SkillLearner      *)
(* (learner.py) and EvolvableSkill (performer.py).                         *)
(***************************************************************************)
EXTENDS Integers, Sequences, FiniteSets, TLC

VARIABLES
    config,      \* the configuration file at SkillAdapter.config_path
    snapshots,   \* the files of .snapshots/<skill>_<version>: version -> file
    clock,       \* datetime.now(), in whole seconds
    opCount,     \* number of calls made so far
    lastOp,      \* the last call, its arguments and what it returned
    issued,      \* every snapshot creation so far: [version, pre, via]
    practicesFile, \* best_practices.json of the skill
    rulesFile,     \* optimization_rules.json of the skill
    stores,        \* the arguments of the store_knowledge calls so far
    evoCfg,        \* EvolvableSkill.evolution_config and evolution_enabled
    historyFile,   \* the lines of execution_history.jsonl
    runs,          \* number of execute calls so far
    passes,        \* the learning threads started so far
    writers        \* the invocations that are inside _save_metrics

adapterVars == <<config, snapshots, clock, issued>>
evolverVars == <<practicesFile, rulesFile, stores>>
skillVars   == <<evoCfg, historyFile, runs, passes, writers>>

vars == <<config, snapshots, clock, opCount, lastOp, issued,
          practicesFile, rulesFile, stores, evoCfg, historyFile, runs, passes,
          writers>>

----------------------------------------------------------------------------
(* Bounds *)
MaxClock == 2
MaxOps   == 3
MaxBatch == 2
MaxRuns  == 2
MaxWriters == 3

----------------------------------------------------------------------------
(* Values of configuration documents and of rules: tagged, since the code  *)
(* treats a dict differently from every other value.                       *)
IntV(n) == [t |-> "int", n |-> n]
StrV(s) == [t |-> "str", s |-> s]
MapV(m) == [t |-> "map", m |-> m]

EmptyDoc == <<>>

Range(s) == {s[i] : i \in 1 .. Len(s)}

RECURSIVE GCD(_, _)
GCD(a, b) == IF b = 0 THEN a ELSE GCD(b, a % b)

(* the float n / d *)
Ratio(n, d) == LET g == GCD(n, d) IN [num |-> n \div g, den |-> d \div g]

(* d.get(k, default) *)
Get(d, k, default) == IF k \in DOMAIN d THEN d[k] ELSE default

Put(d, k, v) == [x \in (DOMAIN d) \cup {k} |-> IF x = k THEN v ELSE d[x]]
Del(d, k)    == [x \in (DOMAIN d) \ {k} |-> d[x]]

(* A file is absent, or holds a document in the bytes some writer gave it: *)
(* "orig" for the owner's own formatting, "dump" for the bytes yaml.dump / *)
(* json.dump produce for the document.                                     *)
NoFile == [exists |-> FALSE]
FileOf(fmt, doc) == [exists |-> TRUE, fmt |-> fmt, doc |-> doc]

(* create_version_snapshot returns "" when the copy failed *)
NoVersion == -1

----------------------------------------------------------------------------
(* OptimizationRule (metrics.py) *)
(* confidence and expected_gain in hundredths *)
Rule(name, type, target, action, value, confidence, expected_gain) ==
    [name |-> name, type |-> type, target |-> target, action |-> action,
     value |-> value, confidence |-> confidence, expected_gain |-> expected_gain]

RetryValue == MapV([max_retries |-> IntV(3), retry_delay |-> IntV(1)])

(* rule.target.split('.') for the targets of the model *)
Split(target) ==
    CASE target = "a"            -> <<"a">>
      [] target = "a.b"          -> <<"a", "b">>
      [] target = "X"            -> <<"X">>
      [] target = "retry_config" -> <<"retry_config">>
      [] OTHER                   -> <<target>>

RECURSIVE SeqsUpTo(_, _)
SeqsUpTo(S, n) ==
    IF n = 0 THEN {<<>>}
    ELSE LET shorter == SeqsUpTo(S, n - 1)
         IN shorter \cup {Append(s, x) : s \in {q \in shorter : Len(q) = n - 1}, x \in S}

OptimizeA   == Rule("optimize_a", "parameter", "a", "adjust", StrV("1"), 70, 10)
OptimizeAB  == Rule("optimize_a.b", "parameter", "a.b", "adjust", StrV("2"), 90, 10)
ImproveSR   == Rule("improve_success_rate", "config", "retry_config", "add", RetryValue, 70, 15)
DropA       == Rule("drop_a", "config", "a", "remove", StrV(""), 70, 0)
Reorder     == Rule("reorder", "workflow", "a", "replace", StrV("3"), 70, 0)

RulePool == { OptimizeA, OptimizeAB, ImproveSR, DropA, Reorder }

(* every rule list of at most MaxBatch rules *)
Batches == SeqsUpTo(RulePool, MaxBatch)

(* the rule lists passed in call sequences *)
CallBatches ==
    { <<>>, <<OptimizeA>>, <<OptimizeAB>>, <<Reorder, ImproveSR>>, <<DropA>> }

----------------------------------------------------------------------------
(* SkillAdapter *)

(* _load_config: raises when the file cannot be opened *)
LoadConfig(file) ==
    IF file.exists THEN [ok |-> TRUE, doc |-> file.doc] ELSE [ok |-> FALSE]

(* _save_config *)
SaveConfig(doc) == FileOf("dump", doc)

(* the navigation and assignment of _adjust_parameter on the loaded dict;  *)
(* `key not in current`, `current[key]` and `current.get` raise on a value *)
(* that is not a dict                                                      *)
RECURSIVE SetPath(_, _, _)
SetPath(doc, keys, value) ==
    IF Len(keys) = 1
    THEN [ok |-> TRUE, doc |-> Put(doc, keys[1], value)]
    ELSE LET key   == keys[1]
             child == IF key \in DOMAIN doc THEN doc[key] ELSE MapV(EmptyDoc)
         IN IF child.t # "map"
            THEN [ok |-> FALSE]
            ELSE LET sub == SetPath(child.m, Tail(keys), value)
                 IN IF sub.ok
                    THEN [ok |-> TRUE, doc |-> Put(doc, key, MapV(sub.doc))]
                    ELSE [ok |-> FALSE]

(* _adjust_parameter: success flag and the file afterwards *)
AdjustParameter(file, rule) ==
    LET loaded == LoadConfig(file)
    IN IF ~loaded.ok
       THEN [ok |-> FALSE, file |-> file]
       ELSE LET set == SetPath(loaded.doc, Split(rule.target), rule.value)
            IN IF set.ok
               THEN [ok |-> TRUE, file |-> SaveConfig(set.doc)]
               ELSE [ok |-> FALSE, file |-> file]

(* an update whose remove puts the value back when the key is absent *)
UpdateDocToggling(doc, rule) ==
    CASE rule.action = "add"     -> Put(doc, rule.target, rule.value)
      [] rule.action = "remove"  -> IF rule.target \in DOMAIN doc
                                    THEN Del(doc, rule.target)
                                    ELSE Put(doc, rule.target, rule.value)
      [] rule.action = "replace" -> Put(doc, rule.target, rule.value)
      [] OTHER                   -> doc

(* the in-memory change _update_config makes to the loaded dict *)
UpdateDoc(doc, rule) ==
    CASE rule.action = "add"     -> Put(doc, rule.target, rule.value)
      [] rule.action = "remove"  -> Del(doc, rule.target)
      [] rule.action = "replace" -> Put(doc, rule.target, rule.value)
      [] OTHER                   -> doc

(* _update_config *)
UpdateConfig(file, rule) ==
    LET loaded == LoadConfig(file)
    IN IF ~loaded.ok
       THEN [ok |-> FALSE, file |-> file]
       ELSE [ok |-> TRUE, file |-> SaveConfig(UpdateDoc(loaded.doc, rule))]

(* the body of the for loop of apply_optimizations for one rule *)
ApplyRule(file, rule) ==
    CASE rule.type = "parameter" -> AdjustParameter(file, rule)
      [] rule.type = "config"    -> UpdateConfig(file, rule)
      [] OTHER                   -> [ok |-> FALSE, file |-> file]

(* a loop that gives up at the first rule that fails *)
RECURSIVE ApplyLoopStopAtFailure(_, _, _, _, _)
ApplyLoopStopAtFailure(file, rules, i, applied, failed) ==
    IF i > Len(rules)
    THEN [file |-> file, applied_rules |-> applied, failed_rules |-> failed]
    ELSE LET r == ApplyRule(file, rules[i])
         IN IF r.ok
            THEN ApplyLoopStopAtFailure(r.file, rules, i + 1,
                                        Append(applied, rules[i].name), failed)
            ELSE [file |-> file, applied_rules |-> applied,
                  failed_rules |-> Append(failed, rules[i].name)]

(* the for loop of apply_optimizations from rule i on *)
RECURSIVE ApplyLoop(_, _, _, _, _)
ApplyLoop(file, rules, i, applied, failed) ==
    IF i > Len(rules)
    THEN [file |-> file, applied_rules |-> applied, failed_rules |-> failed]
    ELSE LET r == ApplyRule(file, rules[i])
         IN IF r.ok
            THEN ApplyLoop(r.file, rules, i + 1, Append(applied, rules[i].name), failed)
            ELSE ApplyLoop(r.file, rules, i + 1, applied, Append(failed, rules[i].name))

(* create_version_snapshot: shutil.copy2 of the configuration file to      *)
(* <skill>_<version>; copyOk is whether the copy could be written          *)
SnapshotOf(file, snaps, now, copyOk) ==
    IF file.exists /\ copyOk
    THEN [version |-> now, snaps |-> Put(snaps, now, file)]
    ELSE [version |-> NoVersion, snaps |-> snaps]

(* a rollback that opens the configuration file for writing before it     *)
(* looks for the snapshot                                                  *)
RollbackTruncatingFirst(file, snaps, version) ==
    IF version \notin DOMAIN snaps
    THEN [ok |-> FALSE, file |-> FileOf("dump", EmptyDoc)]
    ELSE [ok |-> TRUE, file |-> snaps[version]]

(* rollback_to_snapshot *)
RollbackOf(file, snaps, version) ==
    IF version \notin DOMAIN snaps
    THEN [ok |-> FALSE, file |-> file]
    ELSE [ok |-> TRUE, file |-> snaps[version]]

----------------------------------------------------------------------------
(* SkillEvolver: the two knowledge documents *)

(* BestPractice (metrics.py); numbers in hundredths *)
BestPractice(name, description, conditions, actions, expected_improvement, success_rate, usage_count) ==
    [name |-> name, description |-> description, conditions |-> conditions,
     actions |-> actions, expected_improvement |-> expected_improvement,
     success_rate |-> success_rate, usage_count |-> usage_count]

(* json.dump followed by json.load on a value *)
RECURSIVE JsonRoundTrip(_)
JsonRoundTrip(v) ==
    CASE v.t = "int" -> IntV(v.n)
      [] v.t = "str" -> StrV(v.s)
      [] v.t = "map" -> MapV([k \in DOMAIN v.m |-> JsonRoundTrip(v.m[k])])
      [] OTHER       -> v

JsonDict(d) == [k \in DOMAIN d |-> JsonRoundTrip(d[k])]

(* BestPractice.to_dict as stored by json.dump *)
PracticeToDict(p) ==
    [name |-> p.name, description |-> p.description,
     conditions |-> JsonDict(p.conditions), actions |-> JsonDict(p.actions),
     expected_improvement |-> p.expected_improvement,
     success_rate |-> p.success_rate, usage_count |-> p.usage_count]

(* OptimizationRule.to_dict as stored by json.dump; expected_gain in       *)
(* hundredths                                                              *)
RuleToDict(r) ==
    [name |-> r.name, type |-> r.type, target |-> r.target, action |-> r.action,
     value |-> JsonRoundTrip(r.value), confidence |-> r.confidence,
     expected_gain |-> r.expected_gain]

(* the constructor calls of load_best_practices, with their defaults *)
PracticeFromItem(item) ==
    BestPractice(item.name, item.description, item.conditions, item.actions,
                 item.expected_improvement,
                 IF "success_rate" \in DOMAIN item THEN item.success_rate ELSE Ratio(0, 1),
                 IF "usage_count" \in DOMAIN item THEN item.usage_count ELSE 0)

(* the constructor calls of load_optimization_rules *)
RuleFromItem(item) ==
    [name |-> item.name, type |-> item.type, target |-> item.target,
     action |-> item.action, value |-> item.value, confidence |-> item.confidence,
     expected_gain |-> IF "expected_gain" \in DOMAIN item THEN item.expected_gain ELSE 0]

NoDoc == [exists |-> FALSE]
DocOf(items) == [exists |-> TRUE, items |-> items]

(* a store that adds the new entries to the ones of the document *)
StoreKnowledgeMerging(pfile, rfile, practices, rules) ==
    [practices |-> IF practices # <<>>
                   THEN DocOf((IF pfile.exists THEN pfile.items ELSE <<>>)
                              \o [i \in 1 .. Len(practices) |-> PracticeToDict(practices[i])])
                   ELSE pfile,
     rules     |-> IF rules # <<>>
                   THEN DocOf((IF rfile.exists THEN rfile.items ELSE <<>>)
                              \o [i \in 1 .. Len(rules) |-> RuleToDict(rules[i])])
                   ELSE rfile]

(* store_knowledge: the two documents afterwards *)
StoreKnowledge(pfile, rfile, practices, rules) ==
    [practices |-> IF practices # <<>>
                   THEN DocOf([i \in 1 .. Len(practices) |-> PracticeToDict(practices[i])])
                   ELSE pfile,
     rules     |-> IF rules # <<>>
                   THEN DocOf([i \in 1 .. Len(rules) |-> RuleToDict(rules[i])])
                   ELSE rfile]

(* store_knowledge when opening one of the two documents for writing      *)
(* fails: the exception leaves the try block and is logged                *)
StoreFaults == {"none", "practices", "rules"}

StoreOutcome(pfile, rfile, practices, rules, fault) ==
    CASE fault = "practices" /\ practices # <<>> ->
            [practices |-> pfile, rules |-> rfile]
      [] fault = "rules" /\ rules # <<>> ->
            [practices |-> StoreKnowledge(pfile, rfile, practices, <<>>).practices,
             rules |-> rfile]
      [] OTHER ->
            StoreKnowledge(pfile, rfile, practices, rules)

(* load_best_practices *)
LoadBestPractices(pfile) ==
    IF ~pfile.exists THEN <<>>
    ELSE [i \in 1 .. Len(pfile.items) |-> PracticeFromItem(pfile.items[i])]

(* load_optimization_rules *)
LoadOptimizationRules(rfile) ==
    IF ~rfile.exists THEN <<>>
    ELSE [i \in 1 .. Len(rfile.items) |-> RuleFromItem(rfile.items[i])]

----------------------------------------------------------------------------
(* SkillLearner: analysis of a history of ExecutionMetrics.  Scores and    *)
(* confidences are in hundredths, rates are exact fractions.               *)

(* r > p/100 and r < p/100 *)
RatioAbove(r, p) == 100 * r.num > p * r.den
RatioBelow(r, p) == 100 * r.num < p * r.den

(* str(value) as f"{param}={value}" formats it *)
Str(v) ==
    CASE v.t = "int"  -> ToString(v.n)
      [] v.t = "str"  -> v.s
      [] v.t = "none" -> "None"
      [] OTHER        -> "{...}"

(* f"{param}={value}" *)
ParamKey(param, v) == param \o "=" \o Str(v)

(* the parameter names that occur in runs, in the order of the keyword    *)
(* arguments                                                               *)
ParamNames == <<"X", "mode", "a=b">>

(* the position of the first '=' of a key; every key has one *)
FirstEq(key) ==
    CHOOSE i \in 1 .. Len(key) :
        /\ SubSeq(key, i, i) = "="
        /\ \A j \in 1 .. i - 1 : SubSeq(key, j, j) # "="

(* key.split('=')[0] and key.split('=', 1)[1] *)
KeyName(key)  == SubSeq(key, 1, FirstEq(key) - 1)
KeyValue(key) == SubSeq(key, FirstEq(key) + 1, Len(key))

(* the element of a one-element set; { F(x) : x \in {e} } computes the     *)
(* local variable x once and then uses it                                  *)
The(S) == CHOOSE r \in S : TRUE

(* the (key, score) observations of the successful runs in the order the  *)
(* two nested loops of _find_optimal_parameters meet them; a run without  *)
(* the parameter leaves its slot empty                                    *)
Observations(successful) ==
    LET K == Len(ParamNames)
        slot(p) ==
            LET m == successful[((p - 1) \div K) + 1]
                n == ParamNames[((p - 1) % K) + 1]
            IN IF n \in DOMAIN m.parameters
               THEN [pos |-> p, used |-> TRUE, key |-> ParamKey(n, m.parameters[n]),
                     score |-> m.quality_score]
               ELSE [pos |-> p, used |-> FALSE, key |-> "", score |-> 0]
    IN SelectSeq([p \in 1 .. Len(successful) * K |-> slot(p)], LAMBDA o : o.used)

(* param_scores: one entry per key, in the order of the first observation *)
(* of the key, with the scores appended to it                             *)
ParamScoresOf(obs) ==
    LET first == SelectSeq(obs, LAMBDA o :
                     \A j \in 1 .. Len(obs) : obs[j].key = o.key => obs[j].pos >= o.pos)
    IN [i \in 1 .. Len(first) |->
          LET same == SelectSeq(obs, LAMBDA o : o.key = first[i].key)
          IN [key |-> first[i].key,
              scores |-> [j \in 1 .. Len(same) |-> same[j].score]]]

ParamScores(successful) == The({ ParamScoresOf(obs) : obs \in {Observations(successful)} })

RECURSIVE SumSeq(_)
SumSeq(q) ==
    IF Len(q) = 0 THEN 0
    ELSE IF Len(q) = 1 THEN q[1]
    ELSE LET h == Len(q) \div 2
         IN SumSeq(SubSeq(q, 1, h)) + SumSeq(SubSeq(q, h + 1, Len(q)))

IndexOfName(optimal, name) ==
    IF \E i \in 1 .. Len(optimal) : optimal[i].name = name
    THEN CHOOSE i \in 1 .. Len(optimal) : optimal[i].name = name
    ELSE 0

(* the groups that count: observed in at least MinObservations runs *)
MinObservations == 3

(* the second loop of _find_optimal_parameters *)
RECURSIVE PickOptimal(_, _, _)
PickOptimal(entries, i, optimal) ==
    IF i > Len(entries) THEN optimal
    ELSE LET e == entries[i]
             n == Len(e.scores)
             t == SumSeq(e.scores)
             name == KeyName(e.key)
             k == IndexOfName(optimal, name)
             new == [name |-> name, value |-> StrV(KeyValue(e.key)),
                     total |-> t, count |-> n]
         IN IF n >= MinObservations
            THEN IF k = 0
                 THEN PickOptimal(entries, i + 1, Append(optimal, new))
                 ELSE IF t * optimal[k].count > optimal[k].total * n
                      THEN PickOptimal(entries, i + 1, [optimal EXCEPT ![k] = new])
                      ELSE PickOptimal(entries, i + 1, optimal)
            ELSE PickOptimal(entries, i + 1, optimal)

QualityFloor == 70

(* _find_optimal_parameters: the (name, value) items of the returned dict  *)
FindOptimalParameters(history) ==
    The({ [i \in 1 .. Len(optimal) |-> [name |-> optimal[i].name, value |-> optimal[i].value]] :
          optimal \in { PickOptimal(entries, 1, <<>>) :
              entries \in { ParamScores(successful) :
                  successful \in { SelectSeq(history, LAMBDA m :
                                       m.success /\ m.quality_score > QualityFloor) } } } })

(* a == b on two values *)
SameValue(a, b) == a.t = b.t /\ a = b

(* metrics.error_message or "Unknown" *)
ErrorOf(m) ==
    IF m.error_message.t = "str" /\ m.error_message.s # ""
    THEN m.error_message.s ELSE "Unknown"

(* _find_common_parameters; parameters.get(param) is None for a missing key *)
FindCommonParameters(metrics_list) ==
    IF metrics_list = <<>> THEN <<>>
    ELSE LET first_params == metrics_list[1].parameters
             common == { param \in DOMAIN first_params :
                           \A i \in 1 .. Len(metrics_list) :
                              SameValue(Get(metrics_list[i].parameters, param, [t |-> "none"]),
                                        first_params[param]) }
         IN [param \in common |-> first_params[param]]

MinOccurrences == 2

(* the patterns of the failures of a history of n records: the groups in   *)
(* the order of the first failure with their message                       *)
FailurePatternsOf(failures, n) ==
    LET firsts == SelectSeq([i \in 1 .. Len(failures) |-> i], LAMBDA i :
                      \A j \in 1 .. i - 1 : ErrorOf(failures[j]) # ErrorOf(failures[i]))
        groups == [k \in 1 .. Len(firsts) |->
                      SelectSeq(failures, LAMBDA m : ErrorOf(m) = ErrorOf(failures[firsts[k]]))]
        kept   == SelectSeq(groups, LAMBDA g : Len(g) >= MinOccurrences)
    IN [k \in 1 .. Len(kept) |->
          [error |-> ErrorOf(kept[k][1]), count |-> Len(kept[k]),
           frequency |-> Ratio(Len(kept[k]), n),
           common_parameters |-> FindCommonParameters(kept[k])]]

(* _identify_failure_patterns *)
IdentifyFailurePatterns(history) ==
    The({ FailurePatternsOf(failures, Len(history)) :
          failures \in { SelectSeq(history, LAMBDA m : ~m.success) } })

SuccessCount(h) == Len(SelectSeq(h, LAMBDA m : m.success))

TrendMinSamples == 5

(* _analyze_trends *)
AnalyzeTrends(history) ==
    IF Len(history) < TrendMinSamples THEN "insufficient_data"
    ELSE LET mid     == Len(history) \div 2
             recent  == SubSeq(history, mid + 1, Len(history))
             earlier == SubSeq(history, 1, mid)
         IN IF SuccessCount(recent) * Len(earlier) > SuccessCount(earlier) * Len(recent)
            THEN "improving" ELSE "declining"

SuccessRateTarget == 80

(* _find_improvements: the types of the opportunities found *)
FindImprovements(history, success_rate) ==
    IF RatioBelow(success_rate, SuccessRateTarget) THEN <<"success_rate">> ELSE <<>>

(* a confidence whose buckets include their upper boundaries *)
CalculateConfidenceInclusive(history) ==
    LET sample_size == Len(history)
    IN [overall |-> IF sample_size <= 5 THEN 30
                    ELSE IF sample_size <= 10 THEN 50
                    ELSE IF sample_size <= 20 THEN 70
                    ELSE 90,
        sample_size |-> sample_size]

(* _calculate_confidence *)
CalculateConfidence(history) ==
    LET sample_size == Len(history)
    IN [overall |-> IF sample_size < 5 THEN 30
                    ELSE IF sample_size < 10 THEN 50
                    ELSE IF sample_size < 20 THEN 70
                    ELSE 90,
        sample_size |-> sample_size]

(* analyze_patterns *)
AnalyzePatterns(history) ==
    IF history = <<>>
    THEN [success_rate |-> Ratio(0, 1), avg_duration |-> Ratio(0, 1),
          avg_quality_score |-> Ratio(0, 1), optimal_parameters |-> <<>>,
          failure_patterns |-> <<>>, trend |-> "none", improvement_opportunities |-> <<>>,
          confidence_scores |-> <<>>]
    ELSE LET success_rate == Ratio(SuccessCount(history), Len(history))
         IN [success_rate |-> success_rate,
             avg_duration |->
                 Ratio(The({ SumSeq(q) : q \in {[i \in 1 .. Len(history) |->
                                                       history[i].duration]} }),
                       Len(history)),
             avg_quality_score |->
                 Ratio(The({ SumSeq(q) : q \in {[i \in 1 .. Len(history) |->
                                                       history[i].quality_score]} }),
                       Len(history)),
             optimal_parameters |-> FindOptimalParameters(history),
             failure_patterns |-> IdentifyFailurePatterns(history),
             trend |-> AnalyzeTrends(history),
             improvement_opportunities |-> FindImprovements(history, success_rate),
             confidence_scores |-> CalculateConfidence(history)]

----------------------------------------------------------------------------
(* SkillEvolver: knowledge derived from an analysis *)

PracticeGate == 70

(* extract_best_practices *)
ExtractBestPractices(analysis) ==
    LET opt == analysis.optimal_parameters
        fromParameters ==
            IF opt # <<>> /\ RatioAbove(analysis.success_rate, PracticeGate)
            THEN [i \in 1 .. Len(opt) |->
                    BestPractice("optimal_" \o opt[i].name,
                                 "optimal " \o opt[i].name \o "=" \o Str(opt[i].value),
                                 [context |-> StrV("general")],
                                 [n \in {opt[i].name} |-> opt[i].value],
                                 10, analysis.success_rate, 0)]
            ELSE <<>>
        fromTrend ==
            IF analysis.trend = "improving"
            THEN <<BestPractice("performance_improving", "keep current configuration",
                                [trend |-> StrV("improving")],
                                [maintain |-> StrV("current_config")],
                                5, analysis.success_rate, 0)>>
            ELSE <<>>
    IN fromParameters \o fromTrend

RuleGate == 60
DefaultConfidence == 50

(* a rule generation that never reads the confidence of the analysis *)
ObservedConfidenceDefaultOnly(analysis) == DefaultConfidence

(* analysis.confidence_scores.get('overall', 0.5) *)
ObservedConfidence(analysis) ==
    IF "overall" \in DOMAIN analysis.confidence_scores
    THEN analysis.confidence_scores.overall
    ELSE DefaultConfidence

(* a rule generation whose gate lets the boundary confidence through *)
GenerateOptimizationRulesAtGate(analysis) ==
    LET opt == analysis.optimal_parameters
        confidence == ObservedConfidence(analysis)
        parameterRules ==
            IF confidence >= RuleGate
            THEN [i \in 1 .. Len(opt) |->
                    Rule("optimize_" \o opt[i].name, "parameter", opt[i].name, "adjust",
                         opt[i].value, confidence, 10)]
            ELSE <<>>
        hits == SelectSeq(analysis.improvement_opportunities,
                          LAMBDA o : /\ o = "success_rate"
                                     /\ RatioBelow(analysis.success_rate, SuccessRateTarget))
        opportunityRules == [i \in 1 .. Len(hits) |-> ImproveSR]
    IN parameterRules \o opportunityRules

(* generate_optimization_rules *)
GenerateOptimizationRules(analysis) ==
    LET opt == analysis.optimal_parameters
        confidence == ObservedConfidence(analysis)
        parameterRules ==
            IF confidence > RuleGate
            THEN [i \in 1 .. Len(opt) |->
                    Rule("optimize_" \o opt[i].name, "parameter", opt[i].name, "adjust",
                         opt[i].value, confidence, 10)]
            ELSE <<>>
        hits == SelectSeq(analysis.improvement_opportunities,
                          LAMBDA o : /\ o = "success_rate"
                                     /\ RatioBelow(analysis.success_rate, SuccessRateTarget))
        opportunityRules == [i \in 1 .. Len(hits) |-> ImproveSR]
    IN parameterRules \o opportunityRules

----------------------------------------------------------------------------
(* Calls on one SkillAdapter, one after the other *)

EvolverIdle ==
    /\ practicesFile = NoDoc
    /\ rulesFile = NoDoc
    /\ stores = <<>>

DefaultEvolutionConfig ==
    [enabled |-> TRUE, min_executions_for_learning |-> 10, analysis_window |-> 100,
     auto_optimize |-> FALSE]

SkillIdle ==
    /\ evoCfg = DefaultEvolutionConfig
    /\ historyFile = <<>>
    /\ runs = 0
    /\ writers = <<>>
    /\ passes = <<>>

InitConfigs == { NoFile, FileOf("orig", EmptyDoc), FileOf("orig", [a |-> IntV(0)]) }

InitAdapter ==
    /\ config \in InitConfigs
    /\ snapshots = <<>>
    /\ clock = 0
    /\ opCount = 0
    /\ lastOp = [op |-> "init"]
    /\ issued = {}
    /\ EvolverIdle
    /\ SkillIdle

Tick ==
    /\ clock < MaxClock
    /\ clock' = clock + 1
    /\ UNCHANGED <<config, snapshots, opCount, lastOp, issued>>
    /\ UNCHANGED <<evolverVars, skillVars>>

(* apply_optimizations: the files afterwards and the dict returned *)
ApplyOptimizations(file, snaps, now, rules, auto_apply, copyOk) ==
    IF ~auto_apply
    THEN [file |-> file, snaps |-> snaps, version |-> NoVersion,
          ret |-> [op |-> "apply", auto_apply |-> FALSE, rules |-> rules,
                   pre |-> file, applied |-> FALSE, pending_rules |-> rules]]
    ELSE LET snap == SnapshotOf(file, snaps, now, copyOk)
             loop == ApplyLoop(file, rules, 1, <<>>, <<>>)
         IN [file |-> loop.file, snaps |-> snap.snaps, version |-> snap.version,
             ret |-> [op |-> "apply", auto_apply |-> TRUE, rules |-> rules,
                      pre |-> file,
                      applied |-> Len(loop.applied_rules) > 0,
                      snapshot_version |-> snap.version,
                      applied_rules |-> loop.applied_rules,
                      failed_rules |-> loop.failed_rules,
                      total |-> Len(rules)]]

apply_optimizations(rules, auto_apply, copyOk) ==
    /\ opCount < MaxOps
    /\ opCount' = opCount + 1
    /\ UNCHANGED <<clock, evolverVars, skillVars>>
    /\ LET r == ApplyOptimizations(config, snapshots, clock, rules, auto_apply, copyOk)
       IN /\ config' = r.file
          /\ snapshots' = r.snaps
          /\ lastOp' = r.ret
          /\ issued' = IF auto_apply
                       THEN issued \cup {[version |-> r.version, pre |-> config,
                                          via |-> "apply"]}
                       ELSE issued

create_version_snapshot(copyOk) ==
    /\ opCount < MaxOps
    /\ opCount' = opCount + 1
    /\ LET snap == SnapshotOf(config, snapshots, clock, copyOk)
       IN /\ snapshots' = snap.snaps
          /\ issued' = issued \cup {[version |-> snap.version, pre |-> config,
                                     via |-> "direct"]}
          /\ lastOp' = [op |-> "snapshot", pre |-> config, version |-> snap.version]
    /\ UNCHANGED <<config, clock, evolverVars, skillVars>>

rollback_to_snapshot(version) ==
    /\ opCount < MaxOps
    /\ opCount' = opCount + 1
    /\ LET r == RollbackOf(config, snapshots, version)
       IN /\ config' = r.file
          /\ lastOp' = [op |-> "rollback", version |-> version, pre |-> config,
                        preSnaps |-> snapshots, ok |-> r.ok]
    /\ UNCHANGED <<snapshots, clock, issued, evolverVars, skillVars>>

Versions == (0 .. MaxClock) \cup {NoVersion}

NextAdapter ==
    \/ Tick
    \/ \E rules \in CallBatches : apply_optimizations(rules, FALSE, TRUE)
    \/ \E rules \in CallBatches, copyOk \in BOOLEAN :
          apply_optimizations(rules, TRUE, copyOk)
    \/ \E copyOk \in BOOLEAN : create_version_snapshot(copyOk)
    \/ \E version \in Versions : rollback_to_snapshot(version)

SpecAdapter == InitAdapter /\ [][NextAdapter]_vars

----------------------------------------------------------------------------
(* One apply_optimizations call on every rule list of at most MaxBatch     *)
(* rules                                                                   *)

BatchInitConfigs ==
    InitConfigs \cup { FileOf("dump", [a |-> MapV([b |-> StrV("2")])]) }

InitBatch ==
    /\ config \in BatchInitConfigs
    /\ snapshots = <<>>
    /\ clock = 0
    /\ opCount = 0
    /\ lastOp = [op |-> "init"]
    /\ issued = {}
    /\ EvolverIdle
    /\ SkillIdle

ApplyBatch(rules, auto_apply, copyOk) ==
    /\ opCount = 0
    /\ apply_optimizations(rules, auto_apply, copyOk)

NextBatch ==
    \/ \E rules \in Batches : ApplyBatch(rules, FALSE, TRUE)
    \/ \E rules \in Batches, copyOk \in BOOLEAN : ApplyBatch(rules, TRUE, copyOk)

SpecBatch == InitBatch /\ [][NextBatch]_vars

----------------------------------------------------------------------------
(* Calls on one SkillEvolver, one after the other *)

OptimalX ==
    BestPractice("optimal_X", "optimal X=5", [context |-> StrV("general")],
                 [X |-> StrV("5")], 10, Ratio(1, 1), 0)
Improving ==
    BestPractice("performance_improving", "keep current configuration",
                 [trend |-> StrV("improving")], [maintain |-> StrV("current_config")],
                 5, Ratio(1, 1), 0)
OptimalMode ==
    BestPractice("optimal_mode", "optimal mode=fast", <<>>,
                 [mode |-> StrV("fast")], 10, Ratio(4, 5), 2)

PracticeLists == { <<>>, <<OptimalX>>, <<OptimalX, Improving>>, <<OptimalMode, OptimalX>> }
RuleLists     == { <<>>, <<ImproveSR>>, <<OptimizeA, ImproveSR>> }

(* documents left by an earlier process; the item of the first one was     *)
(* written without the optional keys                                       *)
OldPracticeDocs ==
    { NoDoc,
      DocOf(<<[name |-> "optimal_Y", description |-> "optimal Y=1",
               conditions |-> [context |-> StrV("general")],
               actions |-> [Y |-> StrV("1")], expected_improvement |-> 10]>>) }
OldRuleDocs == { NoDoc, DocOf(<<RuleToDict(DropA)>>) }

AdapterIdle ==
    /\ config = NoFile
    /\ snapshots = <<>>
    /\ clock = 0
    /\ issued = {}

InitEvolver ==
    /\ practicesFile \in OldPracticeDocs
    /\ rulesFile \in OldRuleDocs
    /\ stores = <<>>
    /\ opCount = 0
    /\ lastOp = [op |-> "init"]
    /\ AdapterIdle
    /\ SkillIdle

store_knowledge(practices, rules) ==
    /\ opCount < MaxOps
    /\ opCount' = opCount + 1
    /\ LET docs == StoreKnowledge(practicesFile, rulesFile, practices, rules)
       IN /\ practicesFile' = docs.practices
          /\ rulesFile' = docs.rules
    /\ stores' = Append(stores, [practices |-> practices, rules |-> rules])
    /\ lastOp' = [op |-> "store_knowledge"]
    /\ UNCHANGED <<adapterVars, skillVars>>

load_best_practices ==
    /\ opCount < MaxOps
    /\ opCount' = opCount + 1
    /\ lastOp' = [op |-> "load_best_practices", result |-> LoadBestPractices(practicesFile)]
    /\ UNCHANGED <<adapterVars, evolverVars, skillVars>>

load_optimization_rules ==
    /\ opCount < MaxOps
    /\ opCount' = opCount + 1
    /\ lastOp' = [op |-> "load_optimization_rules",
                  result |-> LoadOptimizationRules(rulesFile)]
    /\ UNCHANGED <<adapterVars, evolverVars, skillVars>>

NextEvolver ==
    \/ \E practices \in PracticeLists, rules \in RuleLists :
          store_knowledge(practices, rules)
    \/ load_best_practices
    \/ load_optimization_rules

SpecEvolver == InitEvolver /\ [][NextEvolver]_vars

----------------------------------------------------------------------------
(* EvolvableSkill: execute and the learning threads it starts *)

NoneV == [t |-> "none"]

(* what _execute_core does in one call: it returns a dict, raises an       *)
(* Exception with a message, or raises a BaseException that is no          *)
(* Exception (SystemExit, KeyboardInterrupt)                               *)
WorkReturn(result) == [kind |-> "return", result |-> result]
WorkRaise(message) == [kind |-> "raise", message |-> message]
WorkExit           == [kind |-> "exit"]

(* a try block that lets the exception of the work through *)
RunCoreNotCatching(outcome) ==
    IF outcome.kind = "return"
    THEN [raised |-> FALSE, result |-> outcome.result,
          success |-> Get(outcome.result, "success", TRUE), error |-> NoneV]
    ELSE [raised |-> TRUE]

(* the try block of execute *)
RunCore(outcome) ==
    CASE outcome.kind = "return" ->
            [raised |-> FALSE, result |-> outcome.result,
             success |-> Get(outcome.result, "success", TRUE), error |-> NoneV]
      [] outcome.kind = "raise" ->
            [raised |-> FALSE, result |-> [error |-> outcome.message],
             success |-> FALSE, error |-> StrV(outcome.message)]
      [] OTHER ->
            [raised |-> TRUE]

(* _check_conditions *)
CheckConditions(conditions, context) ==
    \/ DOMAIN conditions = {}
    \/ Get(conditions, "context", NoneV) = StrV("general")
    \/ \A key \in DOMAIN conditions : Get(context, key, NoneV) = conditions[key]

(* the inner loop of _apply_best_practices for one practice *)
ApplyActions(kwargs, actions) ==
    [param \in DOMAIN kwargs |->
        IF param \in DOMAIN actions /\ param # "maintain"
        THEN actions[param] ELSE kwargs[param]]

(* _apply_best_practices *)
RECURSIVE ApplyBestPractices(_, _, _)
ApplyBestPractices(kwargs, practices, i) ==
    IF i > Len(practices) THEN kwargs
    ELSE IF CheckConditions(practices[i].conditions, kwargs)
         THEN ApplyBestPractices(ApplyActions(kwargs, practices[i].actions), practices, i + 1)
         ELSE ApplyBestPractices(kwargs, practices, i + 1)

(* ExecutionMetrics as collect_execution_data builds it; the fields no     *)
(* analysis reads (skill_name, timestamp, user_feedback, output_metrics)   *)
(* are left out                                                            *)
CollectExecutionData(execution_data) ==
    [success |-> Get(execution_data, "success", FALSE),
     duration |-> Get(execution_data, "duration", 0),
     quality_score |-> Get(execution_data, "quality_score", 0),
     parameters |-> Get(execution_data, "parameters", <<>>),
     error_message |-> Get(execution_data, "error", NoneV)]

(* ExecutionMetrics.to_dict as json.dumps writes it *)
MetricsToLine(m) ==
    [success |-> m.success, duration |-> m.duration, quality_score |-> m.quality_score,
     parameters |-> JsonDict(m.parameters), error_message |-> m.error_message]

(* the constructor call of load_history *)
MetricsFromLine(data) ==
    [success |-> data.success, duration |-> data.duration,
     quality_score |-> Get(data, "quality_score", 0),
     parameters |-> Get(data, "parameters", <<>>),
     error_message |-> Get(data, "error_message", NoneV)]

(* lines[-limit:] *)
LastLines(lines, limit) ==
    IF limit = 0 \/ limit >= Len(lines) THEN lines
    ELSE SubSeq(lines, Len(lines) - limit + 1, Len(lines))

(* a loader that returns the newest record first *)
LoadHistoryNewestFirst(lines, limit) ==
    LET kept == LastLines(lines, limit)
    IN [i \in 1 .. Len(kept) |-> MetricsFromLine(kept[Len(kept) + 1 - i])]

(* load_history *)
LoadHistory(lines, limit) ==
    LET kept == LastLines(lines, limit)
    IN [i \in 1 .. Len(kept) |-> MetricsFromLine(kept[i])]

(* the test of _learn_and_evolve that guards the call of the adapter *)
ShouldApplyUnlessNoRules(cfg, rules) == rules # <<>>

ShouldApply(cfg, rules) == cfg.auto_optimize /\ rules # <<>>

(* a learning thread: the history it was given and where it stands *)
NewPass(history) ==
    [pc |-> "analyze", history |-> history, practices |-> <<>>, rules |-> <<>>,
     i |-> 0, pending |-> NoFile, version |-> NoVersion, mutated |-> FALSE,
     preFirst |-> NoFile, snapAtFirst |-> NoFile,
     applied_rules |-> <<>>, failed_rules |-> <<>>,
     docsBefore |-> <<>>, docsAfter |-> <<>>]

(* the runs recorded by earlier processes *)
GoodRun == [success |-> TRUE, duration |-> 1, quality_score |-> 90,
            parameters |-> [X |-> IntV(5)], error_message |-> NoneV]
BadRun  == [success |-> FALSE, duration |-> 1, quality_score |-> 0,
            parameters |-> [X |-> IntV(5)], error_message |-> StrV("boom")]
NineRuns == [i \in 1 .. 9 |-> MetricsToLine(IF i <= 2 THEN BadRun ELSE GoodRun)]

InitHistories == { <<>>, NineRuns }

SkillInitConfig == FileOf("orig", EmptyDoc)

EvolutionConfigs ==
    [enabled : BOOLEAN, min_executions_for_learning : {10},
     analysis_window : {100, 5}, auto_optimize : BOOLEAN]

InitSkill ==
    /\ evoCfg \in EvolutionConfigs
    /\ historyFile \in InitHistories
    /\ runs = 0
    /\ writers = <<>>
    /\ passes = <<>>
    /\ config = SkillInitConfig
    /\ snapshots = <<>>
    /\ clock = 0
    /\ issued = {}
    /\ opCount = 0
    /\ lastOp = [op |-> "init"]
    /\ EvolverIdle

Calls    == { [X |-> IntV(5)] }
Outcomes == { WorkReturn([success |-> TRUE, quality_score |-> 90]),
              WorkReturn([success |-> FALSE, error |-> "bad input"]),
              WorkRaise("boom"),
              WorkExit }

(* execute, up to the start of the learning thread *)
execute(kwargs, outcome, duration, writeOk) ==
    /\ runs' = runs + 1
    /\ LET params == IF evoCfg.enabled
                     THEN ApplyBestPractices(kwargs, LoadBestPractices(practicesFile), 1)
                     ELSE kwargs
           core   == RunCore(outcome)
       IN IF core.raised
          THEN /\ lastOp' = [op |-> "execute", raised |-> TRUE, work |-> outcome,
                             kwargs |-> kwargs, called |-> params,
                             before |-> Len(historyFile)]
               /\ UNCHANGED <<historyFile, passes>>
          ELSE LET metrics == CollectExecutionData(
                                 [success |-> core.success, duration |-> duration,
                                  parameters |-> params,
                                  quality_score |-> Get(core.result, "quality_score", 0),
                                  error |-> core.error])
               IN \E lines \in {IF evoCfg.enabled /\ writeOk
                                THEN Append(historyFile, MetricsToLine(metrics))
                                ELSE historyFile} :
                  \E history \in {LoadHistory(lines, evoCfg.analysis_window)} :
                  /\ historyFile' = lines
                  /\ passes' = IF /\ evoCfg.enabled
                                  /\ Len(history) >= evoCfg.min_executions_for_learning
                               THEN Append(passes, NewPass(history))
                               ELSE passes
                  /\ lastOp' = [op |-> "execute", raised |-> FALSE, work |-> outcome,
                                kwargs |-> kwargs, called |-> params,
                                before |-> Len(historyFile), writeOk |-> writeOk,
                                dispatched |-> /\ evoCfg.enabled
                                               /\ Len(history) >=
                                                     evoCfg.min_executions_for_learning,
                                result |-> [success |-> core.success, data |-> core.result,
                                            duration |-> duration, error |-> core.error]]
    /\ UNCHANGED <<adapterVars, evolverVars, evoCfg, opCount, writers>>

(* _learn_and_evolve, run by its thread from start to end *)
LearnPass(t, copyOk, fault) ==
    /\ passes[t].pc = "analyze"
    /\ \E analysis \in {AnalyzePatterns(passes[t].history)} :
       \E practices \in {ExtractBestPractices(analysis)} :
       \E rules \in {GenerateOptimizationRules(analysis)} :
       \E docs \in {StoreOutcome(practicesFile, rulesFile, practices, rules, fault)} :
       LET before == [practices |-> practicesFile, rules |-> rulesFile]
       IN /\ practicesFile' = docs.practices
          /\ rulesFile' = docs.rules
          /\ IF ShouldApply(evoCfg, rules)
             THEN LET r == ApplyOptimizations(config, snapshots, clock, rules, TRUE, copyOk)
                  IN /\ config' = r.file
                     /\ snapshots' = r.snaps
                     /\ passes' = [passes EXCEPT
                                      ![t].pc = "done", ![t].practices = practices,
                                      ![t].rules = rules, ![t].version = r.version,
                                      ![t].mutated = r.file # config,
                                      ![t].applied_rules = r.ret.applied_rules,
                                      ![t].failed_rules = r.ret.failed_rules,
                                      ![t].docsBefore = before, ![t].docsAfter = docs]
             ELSE /\ passes' = [passes EXCEPT ![t].pc = "done",
                                              ![t].practices = practices,
                                              ![t].rules = rules,
                                              ![t].docsBefore = before,
                                              ![t].docsAfter = docs]
                  /\ UNCHANGED <<config, snapshots>>
    /\ UNCHANGED <<clock, issued, stores, evoCfg, historyFile, runs, writers, opCount, lastOp>>

(* a failure of the thread that reaches the caller of execute *)
LearnFailsIntoCaller(t) ==
    /\ passes[t].pc = "analyze"
    /\ passes' = [passes EXCEPT ![t].pc = "failed"]
    /\ lastOp' = [op |-> "learning_error"]
    /\ UNCHANGED <<adapterVars, evolverVars, evoCfg, historyFile, runs, writers, opCount>>

(* _learn_and_evolve when the analysis raises: the except clause of the    *)
(* thread logs the exception                                               *)
LearnFails(t) ==
    /\ passes[t].pc = "analyze"
    /\ passes' = [passes EXCEPT ![t].pc = "failed",
                                ![t].docsBefore = [practices |-> practicesFile,
                                                   rules |-> rulesFile],
                                ![t].docsAfter = [practices |-> practicesFile,
                                                  rules |-> rulesFile]]
    /\ UNCHANGED <<adapterVars, evolverVars, evoCfg, historyFile, runs, writers, opCount, lastOp>>

(* the caller reviews the stored rules: apply_optimizations without        *)
(* auto_apply                                                              *)
ReviewPending ==
    /\ rulesFile.exists
    /\ LET r == ApplyOptimizations(config, snapshots, clock,
                                   LoadOptimizationRules(rulesFile), FALSE, TRUE)
       IN /\ config' = r.file
          /\ snapshots' = r.snaps
          /\ lastOp' = r.ret
    /\ UNCHANGED <<clock, issued, opCount, evolverVars, skillVars>>

NextSkill ==
    \/ Tick
    \/ /\ runs < MaxRuns
       /\ \E kwargs \in Calls, outcome \in Outcomes, writeOk \in BOOLEAN :
             execute(kwargs, outcome, 1, writeOk)
    \/ \E t \in 1 .. Len(passes), copyOk \in BOOLEAN, fault \in StoreFaults :
          LearnPass(t, copyOk, fault)
    \/ \E t \in 1 .. Len(passes) : LearnFails(t)
    \/ ReviewPending

SpecSkill == InitSkill /\ [][NextSkill]_vars

----------------------------------------------------------------------------
(* The learning threads step by step: every read and write of a file is a  *)
(* step of its own, so that the threads of one skill interleave as the     *)
(* scheduler lets them                                                     *)

(* _learn_and_evolve, steps 1 to 3: analysis, extraction, store_knowledge *)
LearnAndStore(t) ==
    /\ passes[t].pc = "analyze"
    /\ \E analysis \in {AnalyzePatterns(passes[t].history)} :
       \E practices \in {ExtractBestPractices(analysis)} :
       \E rules \in {GenerateOptimizationRules(analysis)} :
       LET docs == StoreKnowledge(practicesFile, rulesFile, practices, rules)
       IN /\ practicesFile' = docs.practices
          /\ rulesFile' = docs.rules
          /\ passes' = [passes EXCEPT ![t].practices = practices, ![t].rules = rules,
                                      ![t].pc = IF ShouldApply(evoCfg, rules)
                                                THEN "snapshot" ELSE "done"]
    /\ UNCHANGED <<adapterVars, stores, evoCfg, historyFile, runs, writers, opCount, lastOp>>

(* apply_optimizations in a learning thread: create_version_snapshot *)
LearnSnapshot(t, copyOk) ==
    /\ passes[t].pc = "snapshot"
    /\ LET snap == SnapshotOf(config, snapshots, clock, copyOk)
       IN /\ snapshots' = snap.snaps
          /\ passes' = [passes EXCEPT ![t].version = snap.version, ![t].i = 1,
                                      ![t].pc = "load"]
    /\ UNCHANGED <<config, clock, issued, evolverVars, evoCfg, historyFile, runs, writers,
                   opCount, lastOp>>

NextRule(p, ok) ==
    [p EXCEPT !.i = @ + 1,
              !.pc = IF p.i >= Len(p.rules) THEN "done" ELSE "load",
              !.applied_rules = IF ok THEN Append(@, p.rules[p.i].name) ELSE @,
              !.failed_rules = IF ok THEN @ ELSE Append(@, p.rules[p.i].name)]

(* the rule's _load_config and the change made in memory *)
LearnLoad(t) ==
    /\ passes[t].pc = "load"
    /\ LET r == ApplyRule(config, passes[t].rules[passes[t].i])
       IN passes' = [passes EXCEPT ![t] =
                        IF r.ok THEN [@ EXCEPT !.pending = r.file, !.pc = "save"]
                        ELSE NextRule(@, FALSE)]
    /\ UNCHANGED <<adapterVars, evolverVars, evoCfg, historyFile, runs, writers, opCount, lastOp>>

(* the rule's _save_config *)
LearnSave(t) ==
    /\ passes[t].pc = "save"
    /\ config' = passes[t].pending
    /\ LET p == passes[t]
       IN passes' = [passes EXCEPT ![t] =
                        NextRule([p EXCEPT !.mutated = TRUE,
                                           !.preFirst = IF p.mutated THEN p.preFirst
                                                        ELSE config,
                                           !.snapAtFirst =
                                               IF p.mutated THEN p.snapAtFirst
                                               ELSE IF p.version \in DOMAIN snapshots
                                                    THEN snapshots[p.version]
                                                    ELSE NoFile],
                                 TRUE)]
    /\ UNCHANGED <<snapshots, clock, issued, evolverVars, evoCfg, historyFile, runs, writers,
                   opCount, lastOp>>

InitThreads ==
    /\ evoCfg \in {c \in EvolutionConfigs : c.enabled /\ c.auto_optimize}
    /\ historyFile = NineRuns
    /\ runs = 0
    /\ writers = <<>>
    /\ passes = <<>>
    /\ config = SkillInitConfig
    /\ snapshots = <<>>
    /\ clock = 0
    /\ issued = {}
    /\ opCount = 0
    /\ lastOp = [op |-> "init"]
    /\ EvolverIdle

NextThreads ==
    \/ Tick
    \/ /\ runs < MaxRuns
       /\ \E kwargs \in Calls, outcome \in Outcomes, writeOk \in BOOLEAN :
             execute(kwargs, outcome, 1, writeOk)
    \/ \E t \in 1 .. Len(passes) : LearnAndStore(t)
    \/ \E t \in 1 .. Len(passes), copyOk \in BOOLEAN : LearnSnapshot(t, copyOk)
    \/ \E t \in 1 .. Len(passes) : LearnLoad(t)
    \/ \E t \in 1 .. Len(passes) : LearnSave(t)

SpecThreads == InitThreads /\ [][NextThreads]_vars

----------------------------------------------------------------------------
(* Claims on the adapter *)

IsAutoApply(op) == op.op = "apply" /\ op.auto_apply

(* C1: if apply_optimizations(rules, auto_apply=True) returned snapshot    *)
(* version v, a later rollback_to_snapshot(v) returns True and leaves the  *)
(* configuration file as it was immediately before that call, whatever     *)
(* other batches ran before or after it.                                   *)
C1_RollbackRestoresPreApply ==
    lastOp.op = "rollback" =>
        \A e \in issued :
            (e.via = "apply" /\ e.version # NoVersion /\ e.version = lastOp.version)
                => (lastOp.ok /\ config = e.pre)

(* C2: an auto-apply call changes the configuration only after a snapshot  *)
(* of the pre-batch configuration was created in the same call: when it    *)
(* reports applied=True its snapshot_version names a snapshot holding the  *)
(* pre-batch configuration, and when snapshot creation failed no rule is   *)
(* applied.                                                                *)
C2_SnapshotBeforeMutate ==
    IsAutoApply(lastOp) =>
        /\ lastOp.applied =>
               /\ lastOp.snapshot_version \in DOMAIN snapshots
               /\ snapshots[lastOp.snapshot_version] = lastOp.pre
        /\ lastOp.snapshot_version = NoVersion =>
               /\ lastOp.applied_rules = <<>>
               /\ config = lastOp.pre

(* C4: rollback_to_snapshot(version) for a version without a snapshot      *)
(* returns False and leaves the configuration file and the snapshot store  *)
(* as they were.                                                           *)
C4_RollbackMissing ==
    (lastOp.op = "rollback" /\ lastOp.version \notin DOMAIN lastOp.preSnaps) =>
        /\ ~lastOp.ok
        /\ config = lastOp.pre
        /\ snapshots = lastOp.preSnaps

C4_Witness ==
    /\ lastOp.op = "rollback"
    /\ lastOp.version \notin DOMAIN lastOp.preSnaps
    /\ lastOp.version # NoVersion
    /\ DOMAIN snapshots # {}
    /\ config.exists
    /\ \E v \in DOMAIN snapshots : snapshots[v] # config

(* the names of the rules a mask selects, in the order of the rule list *)
RECURSIVE Selected(_, _, _)
Selected(rules, mask, i) ==
    IF i > Len(rules) THEN <<>>
    ELSE IF mask[i] THEN <<rules[i].name>> \o Selected(rules, mask, i + 1)
         ELSE Selected(rules, mask, i + 1)

(* C6: in an auto-apply call every rule is attempted in the order given: a *)
(* failing rule does not stop later rules, each rule is reported in        *)
(* exactly one of applied_rules and failed_rules, and applied is True      *)
(* exactly when at least one rule succeeded.                               *)
C6_PerRuleIsolation ==
    IsAutoApply(lastOp) =>
        LET rules == lastOp.rules
            n     == Len(rules)
        IN /\ \E mask \in [1 .. n -> BOOLEAN] :
                 /\ lastOp.applied_rules = Selected(rules, mask, 1)
                 /\ lastOp.failed_rules = Selected(rules, [i \in 1 .. n |-> ~mask[i]], 1)
           /\ \A i \in 1 .. n :
                 /\ (rules[i].type = "config" /\ lastOp.pre.exists)
                        => rules[i].name \in Range(lastOp.applied_rules)
                 /\ rules[i].type \notin {"parameter", "config"}
                        => rules[i].name \in Range(lastOp.failed_rules)
           /\ (n > 0 /\ rules[n].type = "config" /\ lastOp.pre.exists) =>
                 IF rules[n].action = "remove"
                 THEN rules[n].target \notin DOMAIN config.doc
                 ELSE /\ rules[n].target \in DOMAIN config.doc
                      /\ config.doc[rules[n].target] = rules[n].value
           /\ lastOp.applied <=> (lastOp.applied_rules # <<>>)

C6_Witness ==
    /\ IsAutoApply(lastOp)
    /\ Len(lastOp.rules) >= 2
    /\ lastOp.failed_rules # <<>>
    /\ lastOp.failed_rules[1] = lastOp.rules[1].name
    /\ lastOp.applied_rules # <<>>
    /\ lastOp.applied

(* C7: every create_version_snapshot call, direct or within an auto-apply  *)
(* call, yields a version greater than every version issued before, and    *)
(* no existing snapshot is overwritten or altered.                         *)
NewVersion(op) == IF op.op = "snapshot" THEN op.version ELSE op.snapshot_version

C7_FreshImmutable ==
    [][ /\ \A v \in DOMAIN snapshots :
              v \in DOMAIN snapshots' /\ snapshots'[v] = snapshots[v]
        /\ (opCount' # opCount /\ (lastOp'.op = "snapshot" \/ IsAutoApply(lastOp'))
               /\ NewVersion(lastOp') # NoVersion)
              => \A e \in issued : NewVersion(lastOp') > e.version ]_vars

----------------------------------------------------------------------------
(* Claims on the evolver *)

LastStore == stores[Len(stores)]

(* C8: store_knowledge(P, R) with non-empty P and R followed by            *)
(* load_best_practices() and load_optimization_rules() returns exactly P   *)
(* and R, with nothing of the previous documents merged in.                *)
C8_StoreLoadRoundTrip ==
    (stores # <<>> /\ LastStore.practices # <<>> /\ LastStore.rules # <<>>) =>
        /\ lastOp.op = "load_best_practices" => lastOp.result = LastStore.practices
        /\ lastOp.op = "load_optimization_rules" => lastOp.result = LastStore.rules

C8_Witness ==
    /\ Len(stores) >= 2
    /\ stores[1].practices # <<>>
    /\ stores[1].rules # <<>>
    /\ LastStore.practices # <<>>
    /\ LastStore.rules # <<>>
    /\ LastStore.practices # stores[1].practices
    /\ lastOp.op = "load_best_practices"
    /\ lastOp.result = LastStore.practices

(* C9: after store_knowledge(P, R) with non-empty P and R, a subsequent    *)
(* store_knowledge([], []) clears both documents: both loads return empty  *)
(* lists.                                                                  *)
C9_EmptyStoreClears ==
    (/\ Len(stores) >= 2
     /\ LastStore.practices = <<>> /\ LastStore.rules = <<>>
     /\ stores[Len(stores) - 1].practices # <<>>
     /\ stores[Len(stores) - 1].rules # <<>>) =>
        /\ lastOp.op = "load_best_practices" => lastOp.result = <<>>
        /\ lastOp.op = "load_optimization_rules" => lastOp.result = <<>>

----------------------------------------------------------------------------
(* A skill with the default settings whose every Run succeeds with X=5 and *)
(* quality_score 0.9: from an empty history up to the tenth Run, and from  *)
(* eighteen such Runs recorded earlier up to the twentieth and beyond.     *)

TenRuns == 10
EighteenRuns == [i \in 1 .. 18 |-> MetricsToLine(GoodRun)]
Durations == {1, 2}

InitScenario ==
    /\ evoCfg = DefaultEvolutionConfig
    /\ historyFile \in { <<>>, EighteenRuns }
    /\ runs = 0
    /\ writers = <<>>
    /\ passes = <<>>
    /\ config = SkillInitConfig
    /\ snapshots = <<>>
    /\ clock = 0
    /\ issued = {}
    /\ opCount = 0
    /\ lastOp = [op |-> "init"]
    /\ EvolverIdle

RunGood(duration) ==
    /\ runs < (IF Len(historyFile) = runs THEN TenRuns ELSE MaxRuns)
    /\ execute([X |-> IntV(5)], WorkReturn([success |-> TRUE, quality_score |-> 90]),
               duration, TRUE)

ScenarioLearn(t) == t \in 1 .. Len(passes) /\ LearnPass(t, TRUE, "none")

NextScenario ==
    \/ \E duration \in Durations : RunGood(duration)
    \/ \E t \in 1 .. Len(passes) : ScenarioLearn(t)

SpecScenario == InitScenario /\ [][NextScenario]_vars

(* every learning thread that was started gets to run *)
SpecScenarioFair ==
    SpecScenario /\ \A t \in 1 .. MaxRuns + 1 : WF_vars(ScenarioLearn(t))

----------------------------------------------------------------------------
(* The analysis on its own: SkillLearner.analyze_patterns on the history   *)
(* load_history returns, then SkillEvolver.generate_optimization_rules on  *)
(* an AnalysisResult.  The histories are all short mixes of a pool of runs *)
(* and the histories of up to MaxSamples equal good runs.                  *)

MaxHist == 3
MaxSamples == 20

TextRun  == [success |-> TRUE, duration |-> 1, quality_score |-> 90,
             parameters |-> [X |-> StrV("5")], error_message |-> NoneV]
SevenRun == [success |-> TRUE, duration |-> 2, quality_score |-> 80,
             parameters |-> [X |-> IntV(7)], error_message |-> NoneV]
NamedRun == [success |-> TRUE, duration |-> 1, quality_score |-> 90,
             parameters |-> [n \in {"a=b"} |-> IntV(5)], error_message |-> NoneV]
DullRun  == [success |-> TRUE, duration |-> 1, quality_score |-> 70,
             parameters |-> [X |-> IntV(5)], error_message |-> NoneV]

FastFail == [success |-> FALSE, duration |-> 1, quality_score |-> 0,
             parameters |-> [X |-> IntV(5), mode |-> StrV("fast")],
             error_message |-> StrV("boom")]
SlowFail == [success |-> FALSE, duration |-> 1, quality_score |-> 0,
             parameters |-> [X |-> IntV(7), mode |-> StrV("fast")],
             error_message |-> StrV("boom")]
NoneFail == [success |-> FALSE, duration |-> 1, quality_score |-> 0,
             parameters |-> [mode |-> NoneV], error_message |-> StrV("boom")]
SilentFail == [success |-> FALSE, duration |-> 1, quality_score |-> 0,
               parameters |-> [X |-> IntV(5)], error_message |-> NoneV]

RunPool == {GoodRun, TextRun, SevenRun, NamedRun, DullRun, BadRun,
            FastFail, NoneFail, SilentFail}

(* six runs, four of them failures with one message and mode=fast *)
SixRuns == <<GoodRun, FastFail, SlowFail, GoodRun, FastFail, SlowFail>>

AnalysisHistories ==
    SeqsUpTo(RunPool, MaxHist) \cup { [i \in 1 .. n |-> GoodRun] : n \in 0 .. MaxSamples }
        \cup { SixRuns }

(* the confidence_scores an AnalysisResult may carry *)
ConfidenceScores == { <<>> } \cup { [overall |-> c] : c \in {30, 50, 60, 70, 90} }

InitAnalysis ==
    /\ evoCfg = DefaultEvolutionConfig
    /\ \E history \in AnalysisHistories :
          historyFile = [i \in 1 .. Len(history) |-> MetricsToLine(history[i])]
    /\ runs = 0
    /\ writers = <<>>
    /\ passes = <<>>
    /\ opCount = 0
    /\ lastOp = [op |-> "init"]
    /\ AdapterIdle
    /\ EvolverIdle

analyze_patterns ==
    /\ lastOp.op = "init"
    /\ \E history \in {LoadHistory(historyFile, evoCfg.analysis_window)} :
          lastOp' = [op |-> "analyze_patterns", history |-> history,
                     analysis |-> AnalyzePatterns(history)]
    /\ UNCHANGED <<opCount, adapterVars, evolverVars, skillVars>>

generate_optimization_rules(scores) ==
    /\ lastOp.op = "analyze_patterns"
    /\ \E analysis \in {[lastOp.analysis EXCEPT !.confidence_scores = scores]} :
          lastOp' = [op |-> "generate_optimization_rules", analysis |-> analysis,
                     rules |-> GenerateOptimizationRules(analysis)]
    /\ UNCHANGED <<opCount, adapterVars, evolverVars, skillVars>>

NextAnalysis ==
    \/ analyze_patterns
    \/ /\ lastOp.op = "analyze_patterns"
       /\ \E scores \in {lastOp.analysis.confidence_scores} \cup ConfidenceScores :
             generate_optimization_rules(scores)

SpecAnalysis == InitAnalysis /\ [][NextAnalysis]_vars

----------------------------------------------------------------------------
(* Runs of a skill whose best practices were stored earlier: the practices *)
(* are loaded and applied to the keyword arguments before the work is      *)
(* invoked.  The history stays below the learning threshold.               *)

MaxPractices == 2

FastSeven ==
    BestPractice("fast_seven", "X=7 when mode is fast", [mode |-> StrV("fast")],
                 [X |-> StrV("7")], 10, Ratio(1, 1), 0)

PracticePool == {OptimalX, Improving, OptimalMode, FastSeven}

StoredPractices ==
    { DocOf([i \in 1 .. Len(ps) |-> PracticeToDict(ps[i])]) :
         ps \in SeqsUpTo(PracticePool, MaxPractices) \ {<<>>} } \cup { NoDoc }

PracticeCalls ==
    { [X |-> IntV(5)],
      [X |-> IntV(5), mode |-> StrV("slow")],
      [X |-> IntV(5), mode |-> StrV("fast")],
      [trend |-> StrV("improving"), maintain |-> StrV("off")] }

(* what the work of these runs does; a quality_score is whatever number  *)
(* the work puts into its result                                          *)
PracticeOutcomes ==
    Outcomes \cup { WorkReturn([success |-> TRUE, quality_score |-> 150]) }

InitPractice ==
    /\ evoCfg \in { [DefaultEvolutionConfig EXCEPT !.enabled = e] : e \in BOOLEAN }
    /\ practicesFile \in StoredPractices
    /\ rulesFile = NoDoc
    /\ stores = <<>>
    /\ historyFile = <<>>
    /\ runs = 0
    /\ writers = <<>>
    /\ passes = <<>>
    /\ config = SkillInitConfig
    /\ snapshots = <<>>
    /\ clock = 0
    /\ issued = {}
    /\ opCount = 0
    /\ lastOp = [op |-> "init"]

NextPractice ==
    /\ runs < MaxRuns
    /\ \E kwargs \in PracticeCalls, outcome \in PracticeOutcomes :
          execute(kwargs, outcome, 1, TRUE)

SpecPractice == InitPractice /\ [][NextPractice]_vars

----------------------------------------------------------------------------
(* One rule list applied again and again with auto_apply, as the learning  *)
(* passes of a skill do when they derive the same rules                    *)

ReplaceA == Rule("replace_a", "config", "a", "replace", MapV([b |-> StrV("9")]), 70, 0)

TwiceRules == { OptimizeA, OptimizeAB, ImproveSR, DropA, ReplaceA }

TwiceBatches == SeqsUpTo(TwiceRules, MaxBatch)

InitTwice == InitBatch

ApplyAgain(rules, copyOk) ==
    /\ opCount >= 1 => rules = lastOp.rules
    /\ apply_optimizations(rules, TRUE, copyOk)

NextTwice ==
    \E rules \in TwiceBatches, copyOk \in BOOLEAN : ApplyAgain(rules, copyOk)

SpecTwice == InitTwice /\ [][NextTwice]_vars

----------------------------------------------------------------------------
(* apply_optimizations on one rule when writing the configuration back may *)
(* fail: _save_config opens the file with mode 'w', which empties it, and  *)
(* then dumps the document.  The open can fail (the file stays as it was)  *)
(* or the dump can fail after the open (the file stays emptied).           *)

SaveFaults == {"none", "open", "write"}

PartialFile == [exists |-> TRUE, fmt |-> "partial", doc |-> EmptyDoc]

(* the body of the for loop for one rule; _save_config is the last step of *)
(* both handlers and its exception is caught by their except clause        *)
ApplyRuleWith(file, rule, fault) ==
    LET r == ApplyRule(file, rule)
    IN CASE r.ok /\ fault = "open"  -> [ok |-> FALSE, file |-> file]
         [] r.ok /\ fault = "write" -> [ok |-> FALSE, file |-> PartialFile]
         [] OTHER                   -> r

InitFault == InitBatch

apply_with_fault(rule, fault, copyOk) ==
    /\ opCount < MaxOps
    /\ opCount' = opCount + 1
    /\ LET snap == SnapshotOf(config, snapshots, clock, copyOk)
           r    == ApplyRuleWith(config, rule, fault)
       IN /\ config' = r.file
          /\ snapshots' = snap.snaps
          /\ issued' = issued \cup {[version |-> snap.version, pre |-> config,
                                     via |-> "apply"]}
          /\ lastOp' = [op |-> "apply", auto_apply |-> TRUE, rules |-> <<rule>>,
                        pre |-> config, fault |-> fault, applied |-> r.ok,
                        snapshot_version |-> snap.version,
                        applied_rules |-> IF r.ok THEN <<rule.name>> ELSE <<>>,
                        failed_rules |-> IF r.ok THEN <<>> ELSE <<rule.name>>,
                        total |-> 1]
    /\ UNCHANGED <<clock, evolverVars, skillVars>>

NextFault ==
    \E rule \in RulePool, fault \in SaveFaults, copyOk \in BOOLEAN :
        apply_with_fault(rule, fault, copyOk)

SpecFault == InitFault /\ [][NextFault]_vars

----------------------------------------------------------------------------
(* Two adapters whose configuration files live in one directory and so     *)
(* share its .snapshots directory.  In this part `config` maps each skill  *)
(* name to its configuration file and `snapshots` maps each file name of   *)
(* the directory to the file; `issued` records which adapter created which *)
(* snapshot file.                                                          *)

SkillNames == {"s", "s_x"}

(* datetime.now().strftime('%Y%m%d_%H%M%S') at the second `now` *)
VersionText(now) == "20240101_00000" \o ToString(now)

(* f"{self.skill_name}_{version}" *)
SnapshotName(skill, version) == skill \o "_" \o version

(* glob(f"{skill_name}_*") on a file name *)
Globbed(skill, name) ==
    /\ Len(name) >= Len(skill) + 1
    /\ SubSeq(name, 1, Len(skill) + 1) = skill \o "_"

(* name.replace(pat, "") *)
RECURSIVE Remove(_, _)
Remove(text, pat) ==
    IF Len(text) < Len(pat) THEN text
    ELSE IF SubSeq(text, 1, Len(pat)) = pat
         THEN Remove(SubSeq(text, Len(pat) + 1, Len(text)), pat)
         ELSE SubSeq(text, 1, 1) \o Remove(SubSeq(text, 2, Len(text)), pat)

(* the versions list_snapshots returns (their order is left out) *)
ListSnapshots(skill, snaps) ==
    { Remove(name, skill \o "_") : name \in { n \in DOMAIN snaps : Globbed(skill, n) } }

SharedConfigs ==
    [s |-> FileOf("orig", [a |-> IntV(1)]), s_x |-> FileOf("orig", [a |-> IntV(2)])]

InitShared ==
    /\ config = SharedConfigs
    /\ snapshots = <<>>
    /\ clock = 0
    /\ opCount = 0
    /\ lastOp = [op |-> "init"]
    /\ issued = {}
    /\ EvolverIdle
    /\ SkillIdle

SharedSnapshot(skill, copyOk) ==
    /\ opCount < MaxOps
    /\ opCount' = opCount + 1
    /\ LET version == VersionText(clock)
           name    == SnapshotName(skill, version)
       IN IF copyOk
          THEN /\ snapshots' = Put(snapshots, name, config[skill])
               /\ issued' = issued \cup {[skill |-> skill, version |-> version, name |-> name]}
               /\ lastOp' = [op |-> "snapshot", skill |-> skill, version |-> version]
          ELSE /\ lastOp' = [op |-> "snapshot", skill |-> skill, version |-> ""]
               /\ UNCHANGED <<snapshots, issued>>
    /\ UNCHANGED <<config, clock, evolverVars, skillVars>>

SharedList(skill) ==
    /\ opCount < MaxOps
    /\ opCount' = opCount + 1
    /\ lastOp' = [op |-> "list", skill |-> skill, versions |-> ListSnapshots(skill, snapshots)]
    /\ UNCHANGED <<config, snapshots, clock, issued, evolverVars, skillVars>>

SharedRollback(skill, version, copyOk) ==
    /\ opCount < MaxOps
    /\ opCount' = opCount + 1
    /\ LET name == SnapshotName(skill, version)
       IN IF name \in DOMAIN snapshots /\ copyOk
          THEN /\ config' = [config EXCEPT ![skill] = snapshots[name]]
               /\ lastOp' = [op |-> "rollback", skill |-> skill, version |-> version,
                             name |-> name, ok |-> TRUE]
          ELSE /\ lastOp' = [op |-> "rollback", skill |-> skill, version |-> version,
                             name |-> name, ok |-> FALSE]
               /\ UNCHANGED config
    /\ UNCHANGED <<snapshots, clock, issued, evolverVars, skillVars>>

(* the versions a caller passes: the ones listed for the skill, and one    *)
(* that names no snapshot                                                  *)
NextShared ==
    \/ Tick
    \/ \E skill \in SkillNames, copyOk \in BOOLEAN : SharedSnapshot(skill, copyOk)
    \/ \E skill \in SkillNames : SharedList(skill)
    \/ \E skill \in SkillNames, copyOk \in BOOLEAN :
          \E version \in ListSnapshots(skill, snapshots) \cup {"none"} :
             SharedRollback(skill, version, copyOk)

SpecShared == InitShared /\ [][NextShared]_vars

----------------------------------------------------------------------------
(* Invocations of one skill that record their metrics at the same time.    *)
(* _save_metrics opens the history in mode 'a' and writes one line; it     *)
(* takes no lock.  Where the platform appends atomically the line lands    *)
(* whole at the end; elsewhere the append is a seek to the end followed by *)
(* a write at that offset, and other writers can run between the two.      *)

(* the metrics of invocation w; the durations tell the records apart *)
WriterLine(w) ==
    MetricsToLine(CollectExecutionData(
        [success |-> TRUE, duration |-> w, quality_score |-> 90,
         parameters |-> [X |-> IntV(5)]]))

(* the line written at record offset pos *)
WriteAt(lines, pos, line) ==
    IF pos >= Len(lines) THEN Append(lines, line)
    ELSE [lines EXCEPT ![pos + 1] = line]

InitAppend ==
    /\ historyFile \in { <<>>, <<MetricsToLine(GoodRun)>> }
    /\ \E n \in 1 .. MaxWriters :
          writers = [w \in 1 .. n |->
                        [pc |-> "open", line |-> WriterLine(w), pos |-> 0,
                         before |-> Len(historyFile)]]
    /\ evoCfg = DefaultEvolutionConfig
    /\ runs = 0
    /\ passes = <<>>
    /\ opCount = 0
    /\ lastOp = [op |-> "init"]
    /\ AdapterIdle
    /\ EvolverIdle

(* f.write on a platform whose append is atomic *)
AppendWhole(w) ==
    /\ writers[w].pc = "open"
    /\ historyFile' = Append(historyFile, writers[w].line)
    /\ writers' = [writers EXCEPT ![w].pc = "done"]
    /\ UNCHANGED <<adapterVars, evolverVars, evoCfg, runs, passes, opCount, lastOp>>

(* f.write elsewhere: the seek to the end of the file *)
AppendSeek(w) ==
    /\ writers[w].pc = "open"
    /\ writers' = [writers EXCEPT ![w].pc = "sought", ![w].pos = Len(historyFile)]
    /\ UNCHANGED <<adapterVars, evolverVars, evoCfg, historyFile, runs, passes,
                   opCount, lastOp>>

(* f.write elsewhere: the write at the offset found *)
AppendWrite(w) ==
    /\ writers[w].pc = "sought"
    /\ historyFile' = WriteAt(historyFile, writers[w].pos, writers[w].line)
    /\ writers' = [writers EXCEPT ![w].pc = "done"]
    /\ UNCHANGED <<adapterVars, evolverVars, evoCfg, runs, passes, opCount, lastOp>>

NextAppend ==
    \/ \E w \in 1 .. Len(writers) : AppendWhole(w)
    \/ \E w \in 1 .. Len(writers) : AppendSeek(w)
    \/ \E w \in 1 .. Len(writers) : AppendWrite(w)

SpecAppend == InitAppend /\ [][NextAppend]_vars

----------------------------------------------------------------------------
(* Claims on the skill and its learning threads *)

(* the configuration after batch a and then batch b, each run alone *)
Serial(a, b) ==
    ApplyLoop(ApplyLoop(SkillInitConfig, a, 1, <<>>, <<>>).file, b, 1, <<>>, <<>>).file

(* C3: two learning passes of one skill that run concurrently with         *)
(* auto-apply never interleave their snapshot-then-mutate sequences: the   *)
(* final configuration is that of the two batches in some serial order,    *)
(* and each batch's snapshot holds the configuration as it was immediately *)
(* before that batch's first mutation.                                     *)
C3_PerSkillCriticalSection ==
    /\ \A t \in 1 .. Len(passes) :
          (passes[t].mutated /\ passes[t].version # NoVersion)
              => passes[t].snapAtFirst = passes[t].preFirst
    /\ (Len(passes) = 2 /\ \A t \in 1 .. 2 : passes[t].pc = "done")
          => config \in { Serial(passes[1].rules, passes[2].rules),
                          Serial(passes[2].rules, passes[1].rules) }

(* C5: apply_optimizations(rules, auto_apply=False) changes neither the    *)
(* configuration nor the snapshot store and returns applied=False with all *)
(* rules pending; and while auto_optimize is disabled no Run and no        *)
(* learning pass changes the configuration or the snapshot store.          *)
C5_ApprovalPath ==
    [][ /\ (lastOp'.op = "apply" /\ lastOp' # lastOp) =>
              (~lastOp'.auto_apply =>
                  /\ UNCHANGED <<config, snapshots>>
                  /\ ~lastOp'.applied
                  /\ lastOp'.pending_rules = LoadOptimizationRules(rulesFile))
        /\ ~evoCfg.auto_optimize => UNCHANGED <<config, snapshots>> ]_vars

C5_Witness ==
    /\ ~evoCfg.auto_optimize
    /\ \E t \in 1 .. Len(passes) : passes[t].pc = "done" /\ passes[t].rules # <<>>
    /\ lastOp.op = "apply"
    /\ ~lastOp.auto_apply
    /\ lastOp.pending_rules # <<>>
    /\ config = SkillInitConfig
    /\ snapshots = <<>>

LastLine == historyFile[Len(historyFile)]

Recorded(message) ==
    /\ Len(historyFile) = lastOp.before + 1
    /\ ~LastLine.success
    /\ LastLine.error_message = StrV(message)

(* C10 as stated: whenever the work raises an exception, execute returns   *)
(* success=False with the exception's message as error, and the invocation *)
(* is recorded as a failed ExecutionMetrics with that message.             *)
C10_WorkFailureAlwaysRecorded ==
    (lastOp.op = "execute" /\ lastOp.work.kind = "raise") =>
        /\ ~lastOp.raised
        /\ ~lastOp.result.success
        /\ lastOp.result.error = StrV(lastOp.work.message)
        /\ Recorded(lastOp.work.message)

(* C10, amended: whenever the work raises an Exception, execute returns    *)
(* success=False with the exception's message as error; if evolution is    *)
(* enabled and the history line could be written, the invocation is        *)
(* recorded as a failed ExecutionMetrics with that message.                *)
C10_WorkFailureCaught ==
    (lastOp.op = "execute" /\ lastOp.work.kind = "raise") =>
        /\ ~lastOp.raised
        /\ ~lastOp.result.success
        /\ lastOp.result.error = StrV(lastOp.work.message)
        /\ (evoCfg.enabled /\ lastOp.writeOk) => Recorded(lastOp.work.message)

C10_Witness ==
    /\ lastOp.op = "execute"
    /\ lastOp.work.kind = "raise"
    /\ ~lastOp.raised
    /\ evoCfg.enabled
    /\ lastOp.writeOk
    /\ Recorded("boom")
    /\ lastOp.result.error = StrV("boom")

(* C11: a Run dispatches a learning pass exactly when, after its record is *)
(* appended, the number of recorded executions is at least                 *)
(* min_executions_for_learning, whatever min_executions_for_learning and   *)
(* analysis_window are.                                                    *)
C11_LearningThreshold ==
    (lastOp.op = "execute" /\ ~lastOp.raised /\ evoCfg.enabled /\ lastOp.writeOk) =>
        (lastOp.dispatched <=> Len(historyFile) >= evoCfg.min_executions_for_learning)

(* C12: execute returns its result without waiting for the learning pass   *)
(* it dispatched, and nothing a learning pass does (finishing, failing,    *)
(* or never running) changes what a caller of execute got or raises to it. *)
C12_FireAndForget ==
    [][ /\ (lastOp' # lastOp /\ lastOp'.op = "execute" /\ Len(passes') > Len(passes)) =>
              /\ ~lastOp'.raised
              /\ passes'[Len(passes')].pc = "analyze"
              /\ lastOp'.result.success = RunCore(lastOp'.work).success
              /\ lastOp'.result.data = RunCore(lastOp'.work).result
              /\ lastOp'.result.error = RunCore(lastOp'.work).error
        /\ (\E t \in 1 .. Len(passes) : passes'[t] # passes[t]) => lastOp' = lastOp
      ]_vars

C12_Witness ==
    /\ lastOp.op = "execute"
    /\ ~lastOp.raised
    /\ lastOp.dispatched
    /\ lastOp.result.success
    /\ \E t \in 1 .. Len(passes) : passes[t].pc = "failed"
    /\ \E t \in 1 .. Len(passes) : passes[t].pc = "analyze"

PassEnded(t) == passes[t].pc \in {"done", "failed"}

(* C13: after a learning pass ends, normally or through a caught failure,  *)
(* either both knowledge documents hold exactly the practices and rules    *)
(* the pass derived, or both are as they were before the pass.             *)
C13_KnowledgeAllOrNothing ==
    \A t \in 1 .. Len(passes) :
        PassEnded(t) =>
            \/ /\ LoadBestPractices(passes[t].docsAfter.practices) = passes[t].practices
               /\ LoadOptimizationRules(passes[t].docsAfter.rules) = passes[t].rules
            \/ passes[t].docsAfter = passes[t].docsBefore

(* C14: when N invocations of one skill record their metrics concurrently, *)
(* the history afterwards holds exactly N additional complete records, one *)
(* per invocation, none lost.                                              *)
C14_ConcurrentAppends ==
    (writers # <<>> /\ \A w \in 1 .. Len(writers) : writers[w].pc = "done") =>
        /\ Len(historyFile) = writers[1].before + Len(writers)
        /\ \A w \in 1 .. Len(writers) :
              \E i \in writers[1].before + 1 .. Len(historyFile) :
                  historyFile[i] = writers[w].line

FromEmpty == Len(historyFile) = runs

TenthRunPass ==
    /\ FromEmpty
    /\ passes # <<>>
    /\ Len(passes[1].history) = 10

RecommendsX5(practices) ==
    \E i \in 1 .. Len(practices) :
        /\ practices[i].name = "optimal_X"
        /\ DOMAIN practices[i].actions = {"X"}
        /\ Str(practices[i].actions.X) = "5"

(* C15 as stated: after 10 successful Runs with X=5 and quality 0.9 from   *)
(* an empty history, the learning pass of the 10th Run produces a          *)
(* BestPractice recommending X=5 and emits no OptimizationRule.            *)
C15_TenRunsNoRule ==
    (TenthRunPass /\ passes[1].pc = "done") =>
        /\ RecommendsX5(passes[1].practices)
        /\ passes[1].rules = <<>>

(* C15, amended: after 10 successful Runs with X=5 and quality 0.9 from an *)
(* empty history, the learning pass of the 10th Run eventually produces a  *)
(* BestPractice recommending X=5 and emits exactly one OptimizationRule,   *)
(* the parameter rule for X with confidence 0.7.                           *)
C15_TenRunsOneRule ==
    TenthRunPass ~>
        /\ passes # <<>>
        /\ passes[1].pc = "done"
        /\ RecommendsX5(passes[1].practices)
        /\ Len(passes[1].rules) = 1
        /\ passes[1].rules[1].type = "parameter"
        /\ passes[1].rules[1].target = "X"
        /\ Str(passes[1].rules[1].value) = "5"
        /\ passes[1].rules[1].confidence = 70

C15_Witness ==
    /\ TenthRunPass
    /\ runs = 10
    /\ passes[1].pc = "done"
    /\ RecommendsX5(passes[1].practices)
    /\ Len(passes[1].rules) = 1
    /\ passes[1].rules[1].confidence = 70
    /\ LoadOptimizationRules(rulesFile) = passes[1].rules

AllGood(lines) ==
    \A i \in 1 .. Len(lines) : lines[i].success /\ lines[i].quality_score = 90

(* C16: after 20 successful Runs with X=5 and quality 0.9, once the        *)
(* learning passes have run, the stored rules contain a parameter rule for *)
(* X whose value is the observed value 5 and whose confidence is 0.9, and  *)
(* no older pass has replaced it.                                          *)
C16_TwentyRunsRule ==
    (/\ Len(historyFile) = 20
     /\ AllGood(historyFile)
     /\ passes # <<>>
     /\ \A t \in 1 .. Len(passes) : passes[t].pc = "done") =>
        \E i \in 1 .. Len(LoadOptimizationRules(rulesFile)) :
            LET rule == LoadOptimizationRules(rulesFile)[i]
            IN /\ rule.type = "parameter"
               /\ rule.target = "X"
               /\ rule.value = IntV(5)
               /\ rule.confidence = 90

----------------------------------------------------------------------------
(* C17: generate_optimization_rules emits no parameter rule when the       *)
(* confidence of the analysis is at most 0.6 or absent, and otherwise one  *)
(* parameter rule per entry of optimal_parameters, with the entry's name   *)
(* as target, the entry's value as value and the confidence of the         *)
(* analysis as confidence.                                                 *)
ParameterRules(rules) == SelectSeq(rules, LAMBDA r : r.type = "parameter")

C17_ConfidenceGate ==
    lastOp.op = "generate_optimization_rules" =>
        LET scores == lastOp.analysis.confidence_scores
            opt    == lastOp.analysis.optimal_parameters
            emitted == ParameterRules(lastOp.rules)
        IN IF "overall" \in DOMAIN scores /\ scores.overall > 60
           THEN /\ Len(emitted) = Len(opt)
                /\ \A i \in 1 .. Len(opt) :
                      /\ emitted[i].target = opt[i].name
                      /\ emitted[i].value = opt[i].value
                      /\ emitted[i].confidence = scores.overall
           ELSE emitted = <<>>

C17_Witness ==
    /\ lastOp.op = "generate_optimization_rules"
    /\ "overall" \in DOMAIN lastOp.analysis.confidence_scores
    /\ lastOp.analysis.confidence_scores.overall = 70
    /\ Len(lastOp.analysis.optimal_parameters) = 1
    /\ Len(ParameterRules(lastOp.rules)) = 1

(* C18: for a non-empty history of n records the confidence is 0.3 for     *)
(* n < 5, 0.5 for 5 <= n < 10, 0.7 for 10 <= n < 20 and 0.9 from 20 on; it *)
(* is never below the confidence of a shorter history.                     *)
C18_ConfidenceStep ==
    lastOp.op = "analyze_patterns" /\ lastOp.history # <<>> =>
        LET n == Len(lastOp.history)
            c == lastOp.analysis.confidence_scores.overall
        IN /\ c = (IF n < 5 THEN 30 ELSE IF n < 10 THEN 50 ELSE IF n < 20 THEN 70 ELSE 90)
           /\ \A k \in 1 .. n :
                 CalculateConfidence(SubSeq(lastOp.history, 1, k)).overall <= c

C18_Witness ==
    /\ lastOp.op = "analyze_patterns"
    /\ Len(lastOp.history) = 20
    /\ lastOp.analysis.confidence_scores.overall = 90

(* C19: for the empty history analyze_patterns returns success_rate 0,     *)
(* avg_duration 0, avg_quality_score 0 and confidence 0, and rule          *)
(* generation reads that confidence as 0.                                  *)
C19_EmptyHistoryZero ==
    lastOp.op = "analyze_patterns" /\ lastOp.history = <<>> =>
        /\ lastOp.analysis.success_rate = Ratio(0, 1)
        /\ lastOp.analysis.avg_duration = Ratio(0, 1)
        /\ lastOp.analysis.avg_quality_score = Ratio(0, 1)
        /\ "overall" \in DOMAIN lastOp.analysis.confidence_scores
        /\ lastOp.analysis.confidence_scores.overall = 0
        /\ ObservedConfidence(lastOp.analysis) = 0

(* C20: every (name, value) of optimal_parameters was observed in at least *)
(* three qualifying runs (success and quality_score above 0.7); two        *)
(* observations are the same pair only when name and value are the same.   *)
(* The returned value is compared by its text, so that a value observed as *)
(* the integer 5 may be returned as "5".                                   *)
Qualifying(m) == m.success /\ m.quality_score > 70

TimesObserved(history, name, w) ==
    Cardinality({ j \in 1 .. Len(history) :
                    /\ Qualifying(history[j])
                    /\ name \in DOMAIN history[j].parameters
                    /\ history[j].parameters[name] = w })

C20_SampleSizeGate ==
    lastOp.op = "analyze_patterns" =>
        \A e \in Range(lastOp.analysis.optimal_parameters) :
            \E j \in 1 .. Len(lastOp.history) :
                /\ e.name \in DOMAIN lastOp.history[j].parameters
                /\ Str(lastOp.history[j].parameters[e.name]) = Str(e.value)
                /\ TimesObserved(lastOp.history, e.name,
                                 lastOp.history[j].parameters[e.name]) >= 3

(* C21: failure_patterns has exactly one entry per error message (an       *)
(* absent message counts as "Unknown") of at least two failed runs and no  *)
(* other entry; the entry carries the number of failed runs with the       *)
(* message, that number divided by the length of the history, and exactly  *)
(* the (name, value) pairs that every run of the group carries.            *)
MessageOf(m) == IF m.error_message.t = "str" THEN m.error_message.s ELSE "Unknown"

FailedWith(history, msg) ==
    { j \in 1 .. Len(history) : ~history[j].success /\ MessageOf(history[j]) = msg }

CarriedByAll(history, group) ==
    { pair \in UNION { { <<n, history[j].parameters[n]>> : n \in DOMAIN history[j].parameters } :
                       j \in group } :
        \A j \in group :
            /\ pair[1] \in DOMAIN history[j].parameters
            /\ SameValue(history[j].parameters[pair[1]], pair[2]) }

C21_FailurePatterns ==
    lastOp.op = "analyze_patterns" =>
        LET history  == lastOp.history
            patterns == lastOp.analysis.failure_patterns
            repeated == { msg \in { MessageOf(history[j]) : j \in 1 .. Len(history) } :
                            Cardinality(FailedWith(history, msg)) >= 2 }
        IN /\ Len(patterns) = Cardinality(repeated)
           /\ \A msg \in repeated :
                 \E k \in 1 .. Len(patterns) :
                    /\ patterns[k].error = msg
                    /\ patterns[k].count = Cardinality(FailedWith(history, msg))
                    /\ patterns[k].frequency =
                          Ratio(Cardinality(FailedWith(history, msg)), Len(history))
                    /\ { <<n, patterns[k].common_parameters[n]>> :
                            n \in DOMAIN patterns[k].common_parameters }
                          = CarriedByAll(history, FailedWith(history, msg))

(* C22: before the work runs every stored best practice, in stored order,  *)
(* whose conditions match the call (empty or general conditions always     *)
(* match, other conditions only if every key equals the call's parameter   *)
(* of that name) overwrites the parameters its actions name, other than    *)
(* 'maintain'; the work is invoked with exactly the resulting parameters.  *)
MatchesCall(conditions, call) ==
    \/ DOMAIN conditions = {}
    \/ ("context" \in DOMAIN conditions /\ conditions.context = StrV("general"))
    \/ \A key \in DOMAIN conditions :
          key \in DOMAIN call /\ SameValue(call[key], conditions[key])

(* the outgoing parameters after the first n stored practices *)
RECURSIVE Outgoing(_, _, _)
Outgoing(call, practices, n) ==
    IF n = 0 THEN call
    ELSE LET prev == Outgoing(call, practices, n - 1)
         IN IF MatchesCall(practices[n].conditions, call)
            THEN [name \in DOMAIN prev |->
                    IF name \in DOMAIN practices[n].actions /\ name # "maintain"
                    THEN practices[n].actions[name] ELSE prev[name]]
            ELSE prev

C22_PracticesApplied ==
    lastOp.op = "execute" =>
        LET practices == LoadBestPractices(practicesFile)
        IN lastOp.called = Outgoing(lastOp.kwargs, practices, Len(practices))

(* C23: a Run that finds the conditions of a stored best practice matching *)
(* the call increments the stored usage_count of that practice by one.     *)
C23_UsageCounted ==
    [][ (lastOp' # lastOp /\ lastOp'.op = "execute" /\ evoCfg.enabled) =>
            \A i \in 1 .. Len(LoadBestPractices(practicesFile)) :
                MatchesCall(LoadBestPractices(practicesFile)[i].conditions, lastOp'.kwargs) =>
                    /\ i <= Len(LoadBestPractices(practicesFile'))
                    /\ LoadBestPractices(practicesFile')[i].usage_count =
                          LoadBestPractices(practicesFile)[i].usage_count + 1
      ]_vars

(* C24: every recorded ExecutionMetrics has duration >= 0 and a            *)
(* quality_score within [0, 1], and the AnalysisResult computed from the   *)
(* recorded history has success_rate, avg_quality_score and confidence     *)
(* within [0, 1].                                                          *)
UnitRatio(r) == r.num >= 0 /\ r.num <= r.den

C24_Ranges ==
    /\ \A i \in 1 .. Len(historyFile) :
          /\ historyFile[i].duration >= 0
          /\ historyFile[i].quality_score >= 0
          /\ historyFile[i].quality_score <= 100
    /\ historyFile # <<>> =>
          LET analysis == AnalyzePatterns(LoadHistory(historyFile, evoCfg.analysis_window))
          IN /\ UnitRatio(analysis.success_rate)
             /\ analysis.avg_quality_score.num >= 0
             /\ analysis.avg_quality_score.num <= 100 * analysis.avg_quality_score.den
             /\ analysis.confidence_scores.overall >= 0
             /\ analysis.confidence_scores.overall <= 100

(* C25: generate_optimization_rules emits exactly one config rule (target  *)
(* retry_config, action add, value {max_retries: 3, retry_delay: 1},       *)
(* confidence 0.7) when the success_rate of the analysis is below 0.8 and  *)
(* no config rule otherwise, whatever the confidence of the analysis.      *)
ConfigRules(rules) == SelectSeq(rules, LAMBDA r : r.type = "config")

C25_RetryRule ==
    lastOp.op = "generate_optimization_rules" =>
        LET emitted == ConfigRules(lastOp.rules)
            rate    == lastOp.analysis.success_rate
        IN IF 100 * rate.num < 80 * rate.den
           THEN /\ Len(emitted) = 1
                /\ emitted[1].target = "retry_config"
                /\ emitted[1].action = "add"
                /\ emitted[1].value = MapV([max_retries |-> IntV(3), retry_delay |-> IntV(1)])
                /\ emitted[1].confidence = 70
           ELSE emitted = <<>>

(* C26: with evolution enabled and no write failure a Run appends exactly  *)
(* one ExecutionMetrics: when it has returned, load_history() returns the  *)
(* earlier records in their order followed by the record of this Run; no   *)
(* Run, learning pass or adapter operation changes or removes an earlier   *)
(* record.                                                                 *)
C26_AppendOnly ==
    [][ /\ Len(historyFile') >= Len(historyFile)
        /\ SubSeq(LoadHistory(historyFile', 0), 1, Len(historyFile))
              = LoadHistory(historyFile, 0)
        /\ (runs' = runs + 1 /\ evoCfg.enabled /\ ~lastOp'.raised /\ lastOp'.writeOk) =>
              LET history == LoadHistory(historyFile', 0)
              IN /\ Len(history) = Len(historyFile) + 1
                 /\ history[Len(history)] =
                       [success |-> lastOp'.result.success,
                        duration |-> lastOp'.result.duration,
                        quality_score |-> Get(lastOp'.result.data, "quality_score", 0),
                        parameters |-> lastOp'.called,
                        error_message |-> lastOp'.result.error]
      ]_vars

C26_Witness ==
    /\ lastOp.op = "execute"
    /\ ~lastOp.raised
    /\ lastOp.writeOk
    /\ evoCfg.enabled
    /\ runs = 2
    /\ Len(historyFile) = 11
    /\ lastOp.before = 10

(* C30: whenever execute returns success=False, the error of the result    *)
(* and the error_message of the ExecutionMetrics recorded for the          *)
(* invocation both hold the work's error message, whether the work raised  *)
(* or returned a failure record with an error; in failure_patterns the     *)
(* record counts under that message, not under "Unknown".                  *)
WorkMessage(work) ==
    IF work.kind = "raise" THEN work.message ELSE work.result.error

C30_FailureMessage ==
    ( /\ lastOp.op = "execute"
      /\ ~lastOp.raised
      /\ ~lastOp.result.success
      /\ (lastOp.work.kind = "return" => "error" \in DOMAIN lastOp.work.result) ) =>
        /\ lastOp.result.error = StrV(WorkMessage(lastOp.work))
        /\ (evoCfg.enabled /\ lastOp.writeOk) =>
              /\ LastLine.error_message = StrV(WorkMessage(lastOp.work))
              /\ ErrorOf(MetricsFromLine(LastLine)) = WorkMessage(lastOp.work)

(* C27: for a rule list of parameter rules and config rules with action    *)
(* add, remove or replace, applying the list with auto_apply again right   *)
(* after it was applied leaves the configuration document with the content *)
(* it had after the first application.                                     *)
Content(file) == IF file.exists THEN file.doc ELSE [absent |-> TRUE]

C27_Idempotent ==
    (lastOp.op = "apply" /\ lastOp.auto_apply /\ opCount >= 2) =>
        Content(config) = Content(lastOp.pre)

C27_Witness ==
    /\ lastOp.op = "apply"
    /\ lastOp.auto_apply
    /\ opCount = 2
    /\ Len(lastOp.applied_rules) = 2
    /\ config.doc # EmptyDoc

(* C28: whenever a rule is reported in failed_rules, the configuration     *)
(* document is identical to what it was right before the rule was          *)
(* attempted.                                                              *)
C28_FailedRuleNoChange ==
    (lastOp.op = "apply" /\ lastOp.auto_apply /\ lastOp.failed_rules # <<>>) =>
        Content(config) = Content(lastOp.pre)

(* C29: for two adapters with different skill names and one directory,     *)
(* list_snapshots of a skill returns only versions created for that skill  *)
(* and rollback_to_snapshot of a skill restores only a snapshot created    *)
(* for that skill, also when one name is the other followed by '_'.        *)
C29_SnapshotIsolation ==
    /\ lastOp.op = "list" =>
          \A version \in lastOp.versions :
              \E i \in issued : i.skill = lastOp.skill /\ i.version = version
    /\ (lastOp.op = "rollback" /\ lastOp.ok) =>
          \E i \in issued : i.skill = lastOp.skill /\ i.name = lastOp.name

====
